---- MODULE Spec2Model ----
(***************************************************************************)
(* Model of src/event.rs: the event value types (UpdateArgs, Loop, Event), *)
(* the conversion From<UpdateArgs> for Event, the UpdateEvent trait with   *)
(* its two default methods, and its implementation for Event.              *)
(*                                                                         *)
(* An f64 is modelled by its bit pattern, abstracted to (class, sign,      *)
(* magnitude): copying keeps the pattern, while the IEEE comparison that   *)
(* the derived PartialEq / PartialOrd use identifies -0.0 with +0.0 and    *)
(* makes NaN unequal to and unordered with everything.                     *)
(***************************************************************************)
EXTENDS Integers, Sequences, FiniteSets, TLC

\* ------------------------------------------------------------- bounds
\* Largest finite magnitude of a modelled f64.
MaxMag == 2
\* Largest modelled TimeStamp (a u32 in the source).
MaxStamp == 1
\* Number of distinct EventIds and of distinct shared payloads.
NumIds == 2
NumPayloads == 2

\* ------------------------------------------------------------- f64
\* The modelled f64 bit patterns: finite values of either sign (so both
\* zeros), both infinities and a NaN.
F64 ==
    [cls : {"num"}, neg : BOOLEAN, mag : 0..MaxMag]
        \cup [cls : {"inf"}, neg : BOOLEAN, mag : {0}]
        \cup [cls : {"nan"}, neg : {FALSE}, mag : {0}]

F64Of(neg, mag) == [cls |-> "num", neg |-> neg, mag |-> mag]

IsNaN(x) == x.cls = "nan"

\* The position of a non-NaN f64 on the number line (both zeros at 0).
F64Val(x) ==
    LET m == IF x.cls = "inf" THEN MaxMag + 1 ELSE x.mag
    IN IF x.neg THEN 0 - m ELSE m

\* f64's PartialEq: IEEE equality.
F64Eq(a, b) == ~IsNaN(a) /\ ~IsNaN(b) /\ F64Val(a) = F64Val(b)

\* f64's PartialOrd::partial_cmp: "None" when either side is NaN.
F64PartialCmp(a, b) ==
    IF IsNaN(a) \/ IsNaN(b) THEN "None"
    ELSE IF F64Val(a) < F64Val(b) THEN "Less"
    ELSE IF F64Val(a) > F64Val(b) THEN "Greater"
    ELSE "Equal"

\* f64's PartialOrd::lt (the operator <): false when either side is NaN.
F64Lt(a, b) == ~IsNaN(a) /\ ~IsNaN(b) /\ F64Val(a) < F64Val(b)

\* f64 negation: flips the sign bit of a number or an infinity.
F64Neg(x) == IF IsNaN(x) THEN x ELSE [x EXCEPT !.neg = ~x.neg]

\* ------------------------------------------------------------- values
None == [some |-> FALSE]
Some(v) == [some |-> TRUE, val |-> v]

TimeStamp == 0..MaxStamp
EventId == 1..NumIds
Payload == 1..NumPayloads

\* struct UpdateArgs { dt: f64 }
UpdateArgs == [dt : F64]
MkUpdateArgs(dt) == [dt |-> dt]

\* enum Loop { Update(UpdateArgs) }
LoopUpdate(args) == [tag |-> "Update", args |-> args]
Loop == {LoopUpdate(a) : a \in UpdateArgs}

\* enum Event { Loop(Loop), Custom(EventId, Arc<dyn Any>, Option<TimeStamp>) }
EventLoop(l) == [tag |-> "Loop", loop |-> l]
EventCustom(id, payload, ts) ==
    [tag |-> "Custom", id |-> id, payload |-> payload, ts |-> ts]
OptTimeStamp == {None} \cup {Some(t) : t \in TimeStamp}
Event ==
    {EventLoop(l) : l \in Loop}
        \cup {EventCustom(i, p, t) : i \in EventId, p \in Payload, t \in OptTimeStamp}

\* ------------------------------------------------------------- derived comparisons
\* #[derive(PartialEq)] on UpdateArgs: field-wise, so IEEE equality of dt.
UpdateArgsEq(a, b) == F64Eq(a.dt, b.dt)

\* #[derive(PartialOrd)] on UpdateArgs: lexicographic over its one field.
UpdateArgsPartialCmp(a, b) == F64PartialCmp(a.dt, b.dt)

\* #[derive(PartialEq)] on Loop: same variant and equal contents.
LoopEq(a, b) == a.tag = b.tag /\ UpdateArgsEq(a.args, b.args)

\* Variant of LoopPartialCmp with the operands of the field comparison swapped.
LoopPartialCmpSwapped(a, b) ==
    IF a.tag = b.tag THEN UpdateArgsPartialCmp(b.args, a.args) ELSE "None"

\* #[derive(PartialOrd)] on Loop: by variant, then by contents; Loop has the
\* one variant Update, so the contents decide.
LoopPartialCmp(a, b) ==
    IF a.tag = b.tag THEN UpdateArgsPartialCmp(a.args, b.args) ELSE "None"

\* PartialOrd::lt, which the derive leaves to partial_cmp.
LoopLt(a, b) == LoopPartialCmp(a, b) = "Less"

\* ------------------------------------------------------------- closures
\* The closures handed to update: |a| *a (the one update_args passes),
\* |a| UpdateArgs { dt: -a.dt } and |_| UpdateArgs { dt: 0.0 }.
IdentityCopy == "copy"
Closures == {IdentityCopy, "neg", "zero"}

CallF(f, args) ==
    CASE f = IdentityCopy -> args
      [] f = "neg" -> MkUpdateArgs(F64Neg(args.dt))
      [] OTHER -> MkUpdateArgs(F64Of(FALSE, 0))

\* ------------------------------------------------------------- operations
\* Variant of from that stores the magnitude of dt only.
fromAbs(args) == EventLoop(LoopUpdate(MkUpdateArgs([args.dt EXCEPT !.neg = FALSE])))

\* impl From<UpdateArgs> for Event
from(args) == EventLoop(LoopUpdate(args))

\* Variant of from_update_args that can only follow an update event.
from_update_argsNeedsUpdate(args, old_event) ==
    IF old_event.tag = "Loop" THEN Some(EventLoop(LoopUpdate(args))) ELSE None

\* <Event as UpdateEvent>::from_update_args: _old_event is not read.
from_update_args(args, old_event) == Some(EventLoop(LoopUpdate(args)))

\* Variant of from_dt that keeps the dt of an old update event.
from_dtKeepsOld(dt, old_event) ==
    IF old_event.tag = "Loop"
    THEN from_update_args(old_event.loop.args, old_event)
    ELSE from_update_args(MkUpdateArgs(dt), old_event)

\* UpdateEvent::from_dt (default method)
from_dt(dt, old_event) == from_update_args(MkUpdateArgs(dt), old_event)

\* Variant of update whose fallback arm calls f on default arguments.
updateCallsOnFallback(self_, f) ==
    IF self_.tag = "Loop" /\ self_.loop.tag = "Update"
    THEN [ret |-> Some(CallF(f, self_.loop.args)), calls |-> <<self_.loop.args>>]
    ELSE [ret |-> Some(CallF(f, MkUpdateArgs(F64Of(FALSE, 0)))),
          calls |-> <<MkUpdateArgs(F64Of(FALSE, 0))>>]

\* Variant of update that calls f a second time and returns that result.
updateCallsTwice(self_, f) ==
    IF self_.tag = "Loop" /\ self_.loop.tag = "Update"
    THEN [ret |-> Some(CallF(f, self_.loop.args)),
          calls |-> <<self_.loop.args, self_.loop.args>>]
    ELSE [ret |-> None, calls |-> <<>>]

\* <Event as UpdateEvent>::update: the Option it returns, and the arguments
\* of the calls of f it made, in order.
update(self_, f) ==
    IF self_.tag = "Loop" /\ self_.loop.tag = "Update"
    THEN [ret |-> Some(CallF(f, self_.loop.args)), calls |-> <<self_.loop.args>>]
    ELSE [ret |-> None, calls |-> <<>>]

\* Variant of update_args that passes a closure returning fresh arguments.
update_argsFresh(self_) == update(self_, "zero")

\* UpdateEvent::update_args (default method): the run of update it makes.
update_args(self_) == update(self_, IdentityCopy)

\* ------------------------------------------------------------- state
VARIABLES
    self,    \* the event at hand
    origin,  \* Some(args) when self was converted from args, else None
    op,      \* the operation last applied
    in_dt,   \* the dt it was given (from, from_update_args, from_dt)
    in_f,    \* the closure it was given (update)
    ret,     \* what it returned
    calls,   \* the arguments of the closure calls it made
    cmp      \* the last comparison of two Loop values

vars == <<self, origin, op, in_dt, in_f, ret, calls, cmp>>

NoCmp ==
    [op |-> "none", a |-> LoopUpdate(MkUpdateArgs(F64Of(FALSE, 0))),
     b |-> LoopUpdate(MkUpdateArgs(F64Of(FALSE, 0))), holds |-> FALSE, ord |-> "None"]

\* tests::test_input_update, line 98: let e: Event = UpdateArgs { dt: 0.0 }.into();
Init ==
    /\ self = from(MkUpdateArgs(F64Of(FALSE, 0)))
    /\ origin = Some(MkUpdateArgs(F64Of(FALSE, 0)))
    /\ op = "from"
    /\ in_dt = F64Of(FALSE, 0)
    /\ in_f = "none"
    /\ ret = None
    /\ calls = <<>>
    /\ cmp = NoCmp

\* Event::from(args)
From ==
    \E args \in UpdateArgs :
        /\ self' = from(args)
        /\ origin' = Some(args)
        /\ op' = "from"
        /\ in_dt' = args.dt
        /\ in_f' = "none"
        /\ ret' = None
        /\ calls' = <<>>
        /\ UNCHANGED cmp

\* Event::Custom(id, payload, ts)
Custom ==
    \E id \in EventId, payload \in Payload, ts \in OptTimeStamp :
        /\ self' = EventCustom(id, payload, ts)
        /\ origin' = None
        /\ op' = "custom"
        /\ in_f' = "none"
        /\ ret' = None
        /\ calls' = <<>>
        /\ UNCHANGED <<in_dt, cmp>>

\* Event::from_update_args(&args, &self)
FromUpdateArgs ==
    \E args \in UpdateArgs :
        /\ ret' = from_update_args(args, self)
        /\ op' = "from_update_args"
        /\ in_dt' = args.dt
        /\ in_f' = "none"
        /\ calls' = <<>>
        /\ UNCHANGED <<self, origin, cmp>>

\* Event::from_dt(dt, &self)
FromDt ==
    \E dt \in F64 :
        /\ ret' = from_dt(dt, self)
        /\ op' = "from_dt"
        /\ in_dt' = dt
        /\ in_f' = "none"
        /\ calls' = <<>>
        /\ UNCHANGED <<self, origin, cmp>>

\* self.update(f)
Update ==
    \E f \in Closures :
        /\ ret' = update(self, f).ret
        /\ calls' = update(self, f).calls
        /\ op' = "update"
        /\ in_f' = f
        /\ UNCHANGED <<self, origin, in_dt, cmp>>

\* self.update_args()
UpdateArgsCall ==
    /\ ret' = update_args(self).ret
    /\ calls' = update_args(self).calls
    /\ op' = "update_args"
    /\ in_f' = "none"
    /\ UNCHANGED <<self, origin, in_dt, cmp>>

Next == From \/ Custom \/ FromUpdateArgs \/ FromDt \/ Update \/ UpdateArgsCall

Spec == Init /\ [][Next]_vars

\* ------------------------------------------------------------- comparing Loop values
\* a == b
CmpEq ==
    \E a \in Loop, b \in Loop :
        /\ cmp' = [op |-> "eq", a |-> a, b |-> b, holds |-> LoopEq(a, b), ord |-> "None"]
        /\ UNCHANGED <<self, origin, op, in_dt, in_f, ret, calls>>

\* a < b
CmpLt ==
    \E a \in Loop, b \in Loop :
        /\ cmp' = [op |-> "lt", a |-> a, b |-> b, holds |-> LoopLt(a, b), ord |-> "None"]
        /\ UNCHANGED <<self, origin, op, in_dt, in_f, ret, calls>>

\* a.partial_cmp(&b)
CmpPartialCmp ==
    \E a \in Loop, b \in Loop :
        /\ cmp' = [op |-> "partial_cmp", a |-> a, b |-> b, holds |-> FALSE,
                   ord |-> LoopPartialCmp(a, b)]
        /\ UNCHANGED <<self, origin, op, in_dt, in_f, ret, calls>>

NextCmp == CmpEq \/ CmpLt \/ CmpPartialCmp

SpecCmp == Init /\ [][NextCmp]_vars

\* ------------------------------------------------------------- properties
IsUpdate(e) == e.tag = "Loop" /\ e.loop.tag = "Update"

\* C1: an event converted from UpdateArgs{dt} answers update_args() with
\* Some(UpdateArgs{dt}), the dt having the very bit pattern that went in.
C1_RoundTrip ==
    (op = "update_args" /\ origin.some) => ret = Some(origin.val)

C1_Witness ==
    /\ op = "update_args"
    /\ origin.some
    /\ origin.val.dt = F64Of(TRUE, 0)
    /\ ret = Some(origin.val)

\* C2: from_update_args on Event is never absent: whatever the old event, it
\* returns Some(Event::Loop(Loop::Update(args))), so every old event gives
\* the same result.
C2_FromUpdateArgsTotal ==
    op = "from_update_args" =>
        /\ ret = Some(EventLoop(LoopUpdate(MkUpdateArgs(in_dt))))
        /\ \A e \in Event : from_update_args(MkUpdateArgs(in_dt), e) = ret

C2_Witness ==
    /\ op = "from_update_args"
    /\ self.tag = "Custom"
    /\ ret.some
    /\ IsNaN(ret.val.loop.args.dt)

\* C3: from_dt(dt, &e) returns what from_update_args(&UpdateArgs{dt}, &e)
\* returns: present or absent alike, and the same event when present.
C3_FromDtEquivalence ==
    op = "from_dt" =>
        /\ ret.some = from_update_args(MkUpdateArgs(in_dt), self).some
        /\ ret = from_update_args(MkUpdateArgs(in_dt), self)

C3_Witness ==
    /\ op = "from_dt"
    /\ IsUpdate(self)
    /\ ret.some
    /\ ret.val # self

\* C4: update_args() returns what update(|a| *a) returns on the same event:
\* Some(copy of its UpdateArgs) for an update event, None for any other.
C4_UpdateArgsEquivalence ==
    op = "update_args" =>
        /\ ret = update(self, IdentityCopy).ret
        /\ calls = update(self, IdentityCopy).calls
        /\ IsUpdate(self) => ret = Some(self.loop.args)
        /\ ~IsUpdate(self) => ret = None

C4_Witness ==
    /\ op = "update_args"
    /\ IsUpdate(self)
    /\ self.loop.args.dt.cls = "inf"
    /\ ret.some

\* C5: on a Custom event, whatever its id, payload and time stamp, update(f)
\* returns None without a single call of f, and update_args() returns None.
C5_NonUpdateAbsence ==
    (op \in {"update", "update_args"} /\ self.tag = "Custom") =>
        /\ ret = None
        /\ calls = <<>>

C5_Witness ==
    /\ op = "update"
    /\ self.tag = "Custom"
    /\ self.ts.some
    /\ in_f = "zero"
    /\ ret = None

\* C9: Loop::Update values order as their dt: dt1 < dt2 makes the first
\* compare less than the second, and two are equal exactly when their dt
\* are equal.
C9_LoopOrderMatchesDt ==
    /\ (cmp.op = "lt" /\ F64Lt(cmp.a.args.dt, cmp.b.args.dt)) => cmp.holds
    /\ (cmp.op = "partial_cmp" /\ F64Lt(cmp.a.args.dt, cmp.b.args.dt)) => cmp.ord = "Less"
    /\ cmp.op = "eq" => (cmp.holds <=> F64Eq(cmp.a.args.dt, cmp.b.args.dt))

C9_Witness ==
    /\ cmp.op = "lt"
    /\ cmp.a.args.dt = F64Of(TRUE, 1)
    /\ cmp.b.args.dt = F64Of(TRUE, 0)
    /\ cmp.holds

\* C10: one update(f) calls f at most once, and has done so by the time it
\* returns; on Event::Loop(Loop::Update(args)) it calls f exactly once, on
\* that event's args, and returns Some of what f returned.
C10_CallsAtMostOnce ==
    op = "update" =>
        /\ Len(calls) <= 1
        /\ IsUpdate(self) =>
            /\ calls = <<self.loop.args>>
            /\ ret = Some(CallF(in_f, self.loop.args))

C10_Witness ==
    /\ op = "update"
    /\ IsUpdate(self)
    /\ in_f = "neg"
    /\ Len(calls) = 1
    /\ ret.val # self.loop.args

====
